---- MODULE Spec2Model ----
(***************************************************************************)
(* bincomb: a line-oriented layout script is lexed (lexer.rs), parsed      *)
(* (parser.rs) and interpreted (main.rs) against one output file and one   *)
(* variable environment.                                                   *)
(*                                                                         *)
(* Text is modelled as a sequence of one-character strings, a usize as its *)
(* 4 little-endian limbs, the output file as the sequence of its bytes.    *)
(***************************************************************************)
EXTENDS Integers, Sequences, FiniteSets, TLC

(***************************************************************************)
(* Results: Ok(v), Err(msg, arg) (an anyhow error: message text and the    *)
(* identifier or character it names), Panic(msg).                          *)
(***************************************************************************)
Ok(x) == [r |-> "ok", v |-> x]

Err(m, a) == [r |-> "err", msg |-> m, arg |-> a]

Panic(m) == [r |-> "panic", msg |-> m]

IsOk(x) == x.r = "ok"

\* `let x = value;` followed by F, which uses x
With(value, F(_)) == F(value)

\* `let x = res?;` followed by F: an error or a panic is returned as it is
Try(res, F(_)) == IF IsOk(res) THEN F(res.v) ELSE res

(***************************************************************************)
(* usize: 64 bits, held as 4 little-endian limbs of 16 bits.               *)
(***************************************************************************)
UsizeLimbs == 4

LimbRange == 65536

ByteRange == 256

Zero == [i \in 1..UsizeLimbs |-> 0]

\* a small natural number (below 2^31) as a usize
RECURSIVE NatLimbs(_, _)
NatLimbs(n, k) ==
    IF k = 0 THEN <<>> ELSE <<n % LimbRange>> \o NatLimbs(n \div LimbRange, k - 1)

Usize(n) == NatLimbs(n, UsizeLimbs)

\* what limb i may hold at most, plus one, in a value of w bytes
LimbCap(w, i) ==
    IF w >= 2 * i THEN LimbRange ELSE IF w = 2 * i - 1 THEN ByteRange ELSE 1

\* v fits in w bytes: TryFrom<usize> for u8 (w = 1), u16 (2), u32 (4)
FitsIn(v, w) == \A i \in 1..UsizeLimbs : v[i] < LimbCap(w, i)

\* the value of a usize below 2^30
ToNat(v) == v[1] + LimbRange * v[2]

IsSmall(v) == v[2] < 16384 /\ v[3] = 0 /\ v[4] = 0

\* a < b on usize values
RECURSIVE LessFrom(_, _, _)
LessFrom(a, b, i) ==
    IF i = 0 THEN FALSE
    ELSE IF a[i] # b[i] THEN a[i] < b[i]
    ELSE LessFrom(a, b, i - 1)

Less(a, b) == LessFrom(a, b, UsizeLimbs)

\* a + b with the carry out of the top limb
RECURSIVE AddFrom(_, _, _, _)
AddFrom(a, b, i, carry) ==
    IF i > UsizeLimbs THEN [digits |-> <<>>, carry |-> carry]
    ELSE LET t == a[i] + b[i] + carry
             rest == AddFrom(a, b, i + 1, t \div LimbRange)
         IN  [digits |-> <<t % LimbRange>> \o rest.digits, carry |-> rest.carry]

\* a - b with the borrow out of the top limb
RECURSIVE SubFrom(_, _, _, _)
SubFrom(a, b, i, borrow) ==
    IF i > UsizeLimbs THEN [digits |-> <<>>, carry |-> borrow]
    ELSE LET t == a[i] - b[i] - borrow
             rest == SubFrom(a, b, i + 1, IF t < 0 THEN 1 ELSE 0)
         IN  [digits |-> <<(t + LimbRange) % LimbRange>> \o rest.digits,
              carry |-> rest.carry]

\* v * m + d with the carry out of the top limb (m, d small)
RECURSIVE MulAddFrom(_, _, _, _)
MulAddFrom(v, m, i, carry) ==
    IF i > UsizeLimbs THEN [digits |-> <<>>, carry |-> carry]
    ELSE LET t == v[i] * m + carry
             rest == MulAddFrom(v, m, i + 1, t \div LimbRange)
         IN  [digits |-> <<t % LimbRange>> \o rest.digits, carry |-> rest.carry]

\* `a + b` on usize: overflow panics in a build with overflow checks (debug)
\* and wraps in one without (release)
usize_add(a, b, checks) ==
    LET s == AddFrom(a, b, 1, 0)
    IN  IF s.carry # 0 /\ checks THEN Panic("attempt to add with overflow")
        ELSE Ok(s.digits)

\* `a - b` on usize, likewise
usize_sub(a, b, checks) ==
    LET s == SubFrom(a, b, 1, 0)
    IN  IF s.carry # 0 /\ checks THEN Panic("attempt to subtract with overflow")
        ELSE Ok(s.digits)

(***************************************************************************)
(* Characters.                                                             *)
(***************************************************************************)
Digits == {"0", "1", "2", "3", "4", "5", "6", "7", "8", "9"}

LowerHex == {"a", "b", "c", "d", "e", "f"}

UpperHex == {"A", "B", "C", "D", "E", "F"}

Lower == {"a", "b", "c", "d", "e", "f", "g", "h", "i", "j", "k", "l", "m",
          "n", "o", "p", "q", "r", "s", "t", "u", "v", "w", "x", "y", "z"}

Upper == {"A", "B", "C", "D", "E", "F", "G", "H", "I", "J", "K", "L", "M",
          "N", "O", "P", "Q", "R", "S", "T", "U", "V", "W", "X", "Y", "Z"}

is_digit(c) == c \in Digits

is_hex_digit(c) == is_digit(c) \/ c \in LowerHex \/ c \in UpperHex

is_alpha(c) == c \in Lower \/ c \in Upper \/ c = "_"

is_alpha_numeric(c) == is_alpha(c) \/ is_digit(c)

\* char::to_digit(16)
DigitValue(c) ==
    CASE c = "0" -> 0 [] c = "1" -> 1 [] c = "2" -> 2 [] c = "3" -> 3
      [] c = "4" -> 4 [] c = "5" -> 5 [] c = "6" -> 6 [] c = "7" -> 7
      [] c = "8" -> 8 [] c = "9" -> 9
      [] c \in {"a", "A"} -> 10 [] c \in {"b", "B"} -> 11
      [] c \in {"c", "C"} -> 12 [] c \in {"d", "D"} -> 13
      [] c \in {"e", "E"} -> 14 [] c \in {"f", "F"} -> 15
      [] OTHER -> 99

\* usize::from_str_radix: the digits one by one, each step checked
RECURSIVE ParseDigits(_, _, _, _)
ParseDigits(src, i, radix, acc) ==
    IF i > Len(src) THEN Ok(acc)
    ELSE IF DigitValue(src[i]) >= radix
         THEN Err("invalid digit found in string", <<>>)
    ELSE LET s == MulAddFrom(acc, radix, 1, DigitValue(src[i]))
         IN  IF s.carry # 0
             THEN Err("number too large to fit in target type", <<>>)
             ELSE ParseDigits(src, i + 1, radix, s.digits)

from_str_radix(src, radix) ==
    IF Len(src) = 0 THEN Err("cannot parse integer from empty string", <<>>)
    ELSE IF Len(src) = 1 /\ src[1] \in {"+", "-"}
         THEN Err("invalid digit found in string", <<>>)
    ELSE IF src[1] = "+" THEN ParseDigits(src, 2, radix, Zero)
    ELSE ParseDigits(src, 1, radix, Zero)

(***************************************************************************)
(* lexer.rs.  A lexer is [start, current, eol] over one line; positions    *)
(* are 0-based as in the source.                                           *)
(***************************************************************************)
NoChar == ""

Token(t, v) == [t |-> t, v |-> v]

Lexer_new == [start |-> 0, current |-> 0, eol |-> FALSE]

Lexer_peek(line, lx) ==
    IF lx.current < Len(line) THEN line[lx.current + 1] ELSE NoChar

\* line[from..to) of the source
Slice(line, from, to) == SubSeq(line, from + 1, to)

RECURSIVE ScanAlnum(_, _)
ScanAlnum(line, cur) ==
    IF cur < Len(line) /\ is_alpha_numeric(line[cur + 1])
    THEN ScanAlnum(line, cur + 1) ELSE cur

RECURSIVE ScanDigits(_, _)
ScanDigits(line, cur) ==
    IF cur < Len(line) /\ is_digit(line[cur + 1])
    THEN ScanDigits(line, cur + 1) ELSE cur

RECURSIVE ScanHexDigits(_, _)
ScanHexDigits(line, cur) ==
    IF cur < Len(line) /\ is_hex_digit(line[cur + 1])
    THEN ScanHexDigits(line, cur + 1) ELSE cur

RECURSIVE ScanString(_, _)
ScanString(line, cur) ==
    IF cur < Len(line) /\ line[cur + 1] # "\""
    THEN ScanString(line, cur + 1) ELSE cur

identifier(line, lx) ==
    LET cur == ScanAlnum(line, lx.current)
    IN  [item |-> Ok(Token("Ident", Slice(line, lx.start, cur))),
         lx |-> [lx EXCEPT !.current = cur]]

string(line, lx) ==
    LET cur == ScanString(line, lx.current)
    IN  IF cur < Len(line)
        THEN [item |-> Ok(Token("Str", Slice(line, lx.start + 1, cur))),
              lx |-> [lx EXCEPT !.current = cur + 1]]
        ELSE [item |-> Err("Unterminated string.", <<>>),
              lx |-> [lx EXCEPT !.current = cur]]

NumToken(parsed) ==
    IF IsOk(parsed) THEN Ok(Token("Num", parsed.v)) ELSE parsed

integer(line, lx) ==
    LET cur == ScanDigits(line, lx.current)
    IN  [item |-> NumToken(from_str_radix(Slice(line, lx.start, cur), 10)),
         lx |-> [lx EXCEPT !.current = cur]]

integer_hex(line, lx) ==
    LET cur == ScanHexDigits(line, lx.current)
    IN  [item |-> NumToken(from_str_radix(Slice(line, lx.start + 2, cur), 16)),
         lx |-> [lx EXCEPT !.current = cur]]

probe_hex(line, lx) ==
    IF Lexer_peek(line, lx) = "x"
    THEN integer_hex(line, [lx EXCEPT !.current = lx.current + 1])
    ELSE integer(line, lx)

comment(line, lx) ==
    [item |-> Ok(Token("Eol", <<>>)), lx |-> [lx EXCEPT !.eol = TRUE]]

\* Iterator::next: one token, an error, or nothing once the end was reached
RECURSIVE next(_, _)
next(line, lx) ==
    IF lx.eol THEN [item |-> [r |-> "none"], lx |-> lx]
    ELSE IF lx.current >= Len(line)
         THEN [item |-> Ok(Token("Eol", <<>>)),
               lx |-> [lx EXCEPT !.start = lx.current, !.eol = TRUE]]
    ELSE LET ch == line[lx.current + 1]
             l1 == [lx EXCEPT !.start = lx.current, !.current = lx.current + 1]
             simple(t) == [item |-> Ok(Token(t, <<>>)), lx |-> l1]
         IN  CASE ch \in {" ", "\t"} -> next(line, l1)
               [] ch = "+" -> simple("Add")
               [] ch = "-" -> simple("Sub")
               [] ch = ":" -> simple("Semicolon")
               [] ch = "," -> simple("Comma")
               [] ch = "$" -> simple("Dollar")
               [] ch = "." -> simple("Dot")
               [] ch = "\"" -> string(line, l1)
               [] ch = "#" -> comment(line, l1)
               [] ch = "0" -> probe_hex(line, l1)
               [] ch \in Digits \ {"0"} -> integer(line, l1)
               [] is_alpha(ch) -> identifier(line, l1)
               [] OTHER -> [item |-> Err("Unknown character", <<ch>>), lx |-> l1]

\* lex.collect::<Result<Vec<Token>>>(): the tokens, or the first error
RECURSIVE collect(_, _, _)
collect(line, lx, acc) ==
    With(next(line, lx), LAMBDA n :
         IF n.item.r = "none" THEN Ok(acc)
         ELSE IF n.item.r = "err" THEN n.item
         ELSE collect(line, n.lx, Append(acc, n.item.v)))

Lex(line) == collect(line, Lexer_new, <<>>)

(***************************************************************************)
(* parser.rs.  Expressions; `current` is the 0-based index of the next     *)
(* token.  parser.rs declares Statement, Binary, Call, Variable, Str and   *)
(* Literal; main.rs also matches on Const(name).                           *)
(***************************************************************************)
Literal(v) == [k |-> "Literal", v |-> v]

Variable(name) == [k |-> "Variable", name |-> name]

Str(v) == [k |-> "Str", v |-> v]

Const(name) == [k |-> "Const", name |-> name]

\* a binary node that takes over the right operand's operator: grouping to the left
Binary_left(op, left, right) ==
    IF right.k = "Binary"
    THEN [k |-> "Binary", op |-> right.op,
          left |-> [k |-> "Binary", op |-> op, left |-> left, right |-> right.left],
          right |-> right.right]
    ELSE [k |-> "Binary", op |-> op, left |-> left, right |-> right]

Binary(op, left, right) == [k |-> "Binary", op |-> op, left |-> left, right |-> right]

Call(callee, args) == [k |-> "Call", callee |-> callee, args |-> args]

Statement(offset, variable, func) ==
    [k |-> "Statement", offset |-> offset, variable |-> variable, func |-> func]

\* a parsed item and the parser's position after it
At(x, cur) == Ok([x |-> x, cur |-> cur])

Parser_peek(tokens, cur) ==
    IF cur < Len(tokens) THEN tokens[cur + 1] ELSE Token("None", <<>>)

cons_semicolon(tokens, cur) ==
    IF Parser_peek(tokens, cur).t = "Semicolon" THEN At(<<>>, cur + 1)
    ELSE Err("Expected semicolon.", <<>>)

cons_ident(tokens, cur) ==
    IF Parser_peek(tokens, cur).t = "Ident"
    THEN At(Parser_peek(tokens, cur).v, cur + 1)
    ELSE Err("Expected semicolon.", <<>>)

\* `$` IDENT `.` IDENT; cur is at the dollar
variable(tokens, cur) ==
    IF Parser_peek(tokens, cur + 1).t # "Ident"
    THEN Err("Expected identifier", <<>>)
    ELSE IF Parser_peek(tokens, cur + 2).t # "Dot"
    THEN Err("Expected dot", <<>>)
    ELSE IF Parser_peek(tokens, cur + 3).t # "Ident"
    THEN Err("Expected identifier", <<>>)
    ELSE At(Variable(Parser_peek(tokens, cur + 1).v \o <<".">>
                     \o Parser_peek(tokens, cur + 3).v), cur + 4)

primary(tokens, cur) ==
    LET tok == Parser_peek(tokens, cur)
    IN  CASE tok.t = "Num" -> At(Literal(tok.v), cur + 1)
          [] tok.t = "Str" -> At(Str(tok.v), cur + 1)
          [] tok.t = "Dollar" -> variable(tokens, cur)
          [] OTHER -> Err("Unexpected primary token", <<>>)

\* primary ( ('+' | '-') expr )?: the right operand is a whole expr
RECURSIVE expr(_, _)
expr(tokens, cur) ==
    Try(primary(tokens, cur), LAMBDA p :
        IF Parser_peek(tokens, p.cur).t \in {"Add", "Sub"}
        THEN Try(expr(tokens, p.cur + 1), LAMBDA right :
                 At(Binary(Parser_peek(tokens, p.cur).t, p.x, right.x), right.cur))
        ELSE At(p.x, p.cur))

\* the `while let Some(arg) = self.cons_arg()` loop of statement()
RECURSIVE cons_args(_, _, _)
cons_args(tokens, cur, acc) ==
    CASE Parser_peek(tokens, cur).t = "Comma" ->
           Try(expr(tokens, cur + 1), LAMBDA arg :
               cons_args(tokens, arg.cur, Append(acc, arg.x)))
      [] Parser_peek(tokens, cur).t = "None" -> Err("Unexpected end of input", <<>>)
      [] OTHER -> At(acc, cur)

statement(tokens, cur) ==
    Try(expr(tokens, cur), LAMBDA offset :
    Try(cons_semicolon(tokens, offset.cur), LAMBDA s1 :
    Try(cons_ident(tokens, s1.cur), LAMBDA var_name :
    Try(cons_semicolon(tokens, var_name.cur), LAMBDA s2 :
    Try(cons_ident(tokens, s2.cur), LAMBDA func_name :
    Try(cons_args(tokens, func_name.cur, <<>>), LAMBDA func_args :
        IF Parser_peek(tokens, func_args.cur).t # "Eol"
        THEN Err("End of line expected", <<>>)
        ELSE Ok(Statement(offset.x, var_name.x,
                          Call(func_name.x, func_args.x)))))))))

\* Parser::parse: nothing for a blank line, else the statement or its error
parse(tokens) ==
    CASE Parser_peek(tokens, 0).t = "Eol" -> [r |-> "none"]
      [] Parser_peek(tokens, 0).t = "None" -> Err("Unexpected end of input", <<>>)
      [] OTHER -> statement(tokens, 0)

(***************************************************************************)
(* main.rs: evaluate.  consts maps a name to its text, vars a key to its   *)
(* usize; checks says whether the build checks arithmetic overflow.        *)
(***************************************************************************)
RECURSIVE evaluate(_, _, _, _)
evaluate(consts, vars, e, checks) ==
    CASE e.k = "Literal" -> Ok(e.v)
      [] e.k = "Variable" ->
           IF e.name \in DOMAIN vars THEN Ok(vars[e.name])
           ELSE Err("Undefined variable", e.name)
      [] e.k = "Const" ->
           IF e.name \in DOMAIN consts THEN from_str_radix(consts[e.name], 10)
           ELSE Err("Undefined constant", e.name)
      [] e.k = "Binary" /\ e.op \in {"Add", "Sub"} ->
           Try(evaluate(consts, vars, e.left, checks), LAMBDA op1 :
           Try(evaluate(consts, vars, e.right, checks), LAMBDA op2 :
               IF e.op = "Add" THEN usize_add(op1, op2, checks)
               ELSE usize_sub(op1, op2, checks)))
      [] OTHER -> Err("Invalid expression", <<>>)

(***************************************************************************)
(* The output file (std::fs::File): its bytes and its cursor.  A seek      *)
(* past MaxSeek is refused by the file system; a write past the end        *)
(* extends the file, the gap reading as zero.                              *)
(***************************************************************************)
MaxSeek == 6

MaxAlloc == 4

seek(outf, offset) ==
    IF IsSmall(offset) /\ ToNat(offset) <= MaxSeek
    THEN Ok([outf EXCEPT !.pos = ToNat(offset)])
    ELSE Err("Invalid argument (os error 22)", <<>>)

Max(a, b) == IF a >= b THEN a ELSE b

Min(a, b) == IF a <= b THEN a ELSE b

\* Write::write of a whole buffer at the cursor
write(outf, bytes) ==
    IF Len(bytes) = 0 THEN outf
    ELSE [data |-> [i \in 1..Max(Len(outf.data), outf.pos + Len(bytes)) |->
                      IF i > outf.pos /\ i <= outf.pos + Len(bytes)
                      THEN bytes[i - outf.pos]
                      ELSE IF i <= Len(outf.data) THEN outf.data[i] ELSE 0],
          pos |-> outf.pos + Len(bytes)]

\* how many bytes a read of n finds from the cursor on
Available(outf, n) == Max(0, Min(n, Len(outf.data) - outf.pos))

\* a read that hands back only the bytes it finds
read_short(outf, n) ==
    [bin |-> [i \in 1..Available(outf, n) |-> outf.data[outf.pos + i]],
     outf |-> [outf EXCEPT !.pos = outf.pos + Available(outf, n)]]

\* Read::read into a zeroed buffer of n bytes: what the file holds from the
\* cursor on, the rest of the buffer left zero
read(outf, n) ==
    [bin |-> [i \in 1..n |-> IF i <= Available(outf, n)
                             THEN outf.data[outf.pos + i] ELSE 0],
     outf |-> [outf EXCEPT !.pos = outf.pos + Available(outf, n)]]

(***************************************************************************)
(* crc::Crc::<u16>::checksum for the two catalogued algorithms (both       *)
(* reflected in and out).                                                  *)
(***************************************************************************)
\* bit p (a power of two) of a xor b
XorBit(a, b, p) == (((a \div p) + (b \div p)) % 2) * p

\* bitwise exclusive or of two 16-bit values
Xor(a, b) ==
    XorBit(a, b, 1) + XorBit(a, b, 2) + XorBit(a, b, 4) + XorBit(a, b, 8)
    + XorBit(a, b, 16) + XorBit(a, b, 32) + XorBit(a, b, 64) + XorBit(a, b, 128)
    + XorBit(a, b, 256) + XorBit(a, b, 512) + XorBit(a, b, 1024)
    + XorBit(a, b, 2048) + XorBit(a, b, 4096) + XorBit(a, b, 8192)
    + XorBit(a, b, 16384) + XorBit(a, b, 32768)

\* the low n bits of v in reverse order
RECURSIVE ReverseBits(_, _)
ReverseBits(v, n) ==
    IF n = 0 THEN 0
    ELSE (v % 2) * (2 ^ (n - 1)) + ReverseBits(v \div 2, n - 1)

\* crc::CRC_16_IBM_SDLC and crc::CRC_16_MODBUS
ALGOS ==
    << [name |-> <<"i", "b", "m", "_", "s", "d", "l", "c">>,
        poly |-> 4129, init |-> 65535, xorout |-> 65535],
       [name |-> <<"m", "o", "d", "b", "u", "s">>,
        poly |-> 32773, init |-> 65535, xorout |-> 0] >>

\* one bit of the reflected division
CrcBit(crc, poly) ==
    IF crc % 2 = 1 THEN Xor(crc \div 2, poly) ELSE crc \div 2

\* n bits
RECURSIVE CrcShift(_, _, _)
CrcShift(crc, poly, n) ==
    IF n = 0 THEN crc
    ELSE With(CrcShift(crc, poly, n - 1), LAMBDA c :
              IF c >= 0 THEN CrcBit(c, poly) ELSE c)

\* the register after the first n bytes
RECURSIVE CrcUpdate(_, _, _, _)
CrcUpdate(init, poly, bytes, n) ==
    IF n = 0 THEN init
    ELSE With(CrcUpdate(init, poly, bytes, n - 1), LAMBDA c :
              IF c >= 0 THEN CrcShift(Xor(c, bytes[n]), poly, 8) ELSE c)

checksum(algo, bytes) ==
    Xor(CrcUpdate(ReverseBits(algo.init, 16), ReverseBits(algo.poly, 16),
                  bytes, Len(bytes)),
        algo.xorout)

\* the first w bytes of a value, high byte first
to_be_bytes(v, w) ==
    [j \in 1..w |-> IF (w - j) % 2 = 0 THEN v[(w - j) \div 2 + 1] % ByteRange
                    ELSE v[(w - j + 1) \div 2] \div ByteRange]

\* to_le_bytes of a value held in limbs: its first w bytes, low byte first
to_le_bytes(v, w) ==
    [j \in 1..w |-> IF j % 2 = 1 THEN v[(j + 1) \div 2] % ByteRange
                    ELSE v[j \div 2] \div ByteRange]

(***************************************************************************)
(* main.rs: the builtins.  Each returns [res, outf]: the length written    *)
(* (or the error) and the output file as it leaves it.                     *)
(***************************************************************************)
Did(res, outf) == [res |-> res, outf |-> outf]

\* `let x = res?;` in a builtin: an error leaves the output as it is by then
TryAt(res, outf, F(_)) == IF IsOk(res) THEN F(res.v) ELSE Did(res, outf)

\* the path, URL or algorithm argument: a string, or a constant's text
StrArg(consts, arg) ==
    CASE arg.k = "Str" -> Ok(arg.v)
      [] arg.k = "Const" ->
           IF arg.name \in DOMAIN consts THEN Ok(consts[arg.name])
           ELSE Err("Undefined constant", arg.name)
      [] OTHER -> Err("Expected string or constant", <<>>)

\* a copy that starts from an empty output: zeros up to offset, then the source
CopyAt_zero_filling(outf, offset, content) ==
    TryAt(seek(outf, offset), outf, LAMBDA at :
          Did(Ok(Usize(Len(content))),
              write([data |-> [i \in 1..at.pos |-> 0], pos |-> at.pos], content)))

\* seek to offset, then copy the whole source to the output
CopyAt(outf, offset, content) ==
    TryAt(seek(outf, offset), outf, LAMBDA at :
          Did(Ok(Usize(Len(content))), write(at, content)))

\* fs: the files that can be opened, path to content
func_file(consts, args, offset, outf, fs) ==
    IF Len(args) # 1 THEN Did(Err("Error number of arguments", <<>>), outf) ELSE
    TryAt(StrArg(consts, args[1]), outf, LAMBDA path :
          IF path \notin DOMAIN fs
          THEN Did(Err("Could not open file", path), outf)
          ELSE CopyAt(outf, offset, fs[path]))

\* net: the answer to the GET: [ok, body]
func_url(consts, args, offset, outf, net) ==
    IF Len(args) # 1 THEN Did(Err("Error number of arguments", <<>>), outf) ELSE
    TryAt(StrArg(consts, args[1]), outf, LAMBDA url :
          IF ~net.ok
          THEN Did(Err("error sending request or error status", url), outf)
          ELSE CopyAt(outf, offset, net.body))

\* TryFrom<usize> for u8, u16, u32: w is the width in bytes
try_into(value, w) ==
    IF FitsIn(value, w) THEN Ok(value)
    ELSE Err("out of range integral type conversion attempted", <<>>)

\* seek to offset and write the bytes; their number is the length
WriteAt(outf, offset, bytes) ==
    TryAt(seek(outf, offset), outf, LAMBDA at :
          Did(Ok(Usize(Len(bytes))), write(at, bytes)))

\* u8, u16, u32: w is the width in bytes
func_uint(w, consts, vars, args, offset, outf, checks) ==
    IF Len(args) # 1 THEN Did(Err("Error number of arguments", <<>>), outf) ELSE
    TryAt(evaluate(consts, vars, args[1], checks), outf, LAMBDA evaluated :
    TryAt(try_into(evaluated, w), outf, LAMBDA value :
          WriteAt(outf, offset, to_le_bytes(value, w))))

func_u32(consts, vars, args, offset, outf, checks) ==
    func_uint(4, consts, vars, args, offset, outf, checks)

func_u16(consts, vars, args, offset, outf, checks) ==
    func_uint(2, consts, vars, args, offset, outf, checks)

func_u8(consts, vars, args, offset, outf, checks) ==
    func_uint(1, consts, vars, args, offset, outf, checks)

\* the first catalogued algorithm of that name, 0 if none
AlgoIndex(name) ==
    IF \E i \in 1..Len(ALGOS) : ALGOS[i].name = name
    THEN CHOOSE i \in 1..Len(ALGOS) :
           ALGOS[i].name = name /\ \A j \in 1..(i - 1) : ALGOS[j].name # name
    ELSE 0

\* vec![0; length]: the buffer, if it can be had
Allocate(length) ==
    IF IsSmall(length) /\ ToNat(length) <= MaxAlloc THEN Ok(ToNat(length))
    ELSE Panic("memory allocation failed")

\* the loop over ALGOS, with the buffer read and the output after the read
CrcOf(algo_name, bin, outf, offset) ==
    IF AlgoIndex(algo_name) = 0
    THEN Did(Err("Unknown algorithm name", algo_name), outf)
    ELSE WriteAt(outf, offset,
                 to_le_bytes(<<checksum(ALGOS[AlgoIndex(algo_name)], bin)>>, 2))

\* read `length` bytes at addr, write their CRC at offset
func_crc16(consts, vars, args, offset, outf, checks) ==
    IF Len(args) # 3 THEN Did(Err("Error number of arguments", <<>>), outf) ELSE
    TryAt(StrArg(consts, args[1]), outf, LAMBDA algo_name :
    TryAt(evaluate(consts, vars, args[2], checks), outf, LAMBDA addr :
    TryAt(evaluate(consts, vars, args[3], checks), outf, LAMBDA length :
    TryAt(seek(outf, addr), outf, LAMBDA at :
    TryAt(Allocate(length), at, LAMBDA n :
    With(read(at, n), LAMBDA rd :
         CrcOf(algo_name, rd.bin, rd.outf, offset)))))))

(***************************************************************************)
(* main.rs: add_variables and interpret.                                   *)
(***************************************************************************)
Key(name, field) == name \o <<".">> \o field

\* the environment after the first two inserts, and after the third
InsertedTwo(vars, name, addr, size) ==
    (Key(name, <<"s", "i", "z", "e">>) :> size)
    @@ (Key(name, <<"s", "t", "a", "r", "t">>) :> addr) @@ vars

\* the third insert storing the size where the end belongs
Inserted_end_is_size(vars, name, addr, size, end) ==
    (Key(name, <<"e", "n", "d">>) :> size) @@ InsertedTwo(vars, name, addr, size)

Inserted(vars, name, addr, size, end) ==
    (Key(name, <<"e", "n", "d">>) :> end) @@ InsertedTwo(vars, name, addr, size)

\* add_variables without its contains_key test: a second definition overwrites
add_variables_overwriting(vars, name, addr, size, checks) ==
    [res |-> Ok(<<>>),
     vars |-> Inserted([k \in DOMAIN vars \ {Key(name, <<"s", "t", "a", "r", "t">>),
                                             Key(name, <<"s", "i", "z", "e">>),
                                             Key(name, <<"e", "n", "d">>)} |-> vars[k]],
                       name, addr, size, usize_add(addr, size, FALSE).v)]

\* [res, vars]
add_variables(vars, name, addr, size, checks) ==
    IF Key(name, <<"s", "t", "a", "r", "t">>) \in DOMAIN vars
    THEN [res |-> Err("Variables with name already defined", name), vars |-> vars]
    ELSE With(usize_add(addr, size, checks), LAMBDA end :
              IF IsOk(end)
              THEN [res |-> Ok(<<>>), vars |-> Inserted(vars, name, addr, size, end.v)]
              ELSE [res |-> end, vars |-> InsertedTwo(vars, name, addr, size)])

NoResult == [r |-> "none"]

\* what interpret leaves: its result, the environment, the output, and for
\* the record the offset it evaluated and what the builtin returned
Ran(res, vars, outf, pos, builtin) ==
    [res |-> res, vars |-> vars, outf |-> outf, pos |-> pos, builtin |-> builtin]

\* the dispatch on the callee's name
Dispatch(callee, consts, vars, args, pos, outf, checks, fs, net) ==
    CASE callee = <<"f", "i", "l", "e">> -> func_file(consts, args, pos, outf, fs)
      [] callee = <<"u", "r", "l">> -> func_url(consts, args, pos, outf, net)
      [] callee = <<"u", "3", "2">> -> func_u32(consts, vars, args, pos, outf, checks)
      [] callee = <<"u", "1", "6">> -> func_u16(consts, vars, args, pos, outf, checks)
      [] callee = <<"u", "8">> -> func_u8(consts, vars, args, pos, outf, checks)
      [] callee = <<"c", "r", "c", "1", "6">> -> func_crc16(consts, vars, args, pos, outf, checks)
      [] OTHER -> Did(Err("Unknown function name", callee), outf)

\* every destination recorded, `_` too
Records_always(var_name) == TRUE

\* a destination other than `_` is recorded
Records(var_name) == var_name # <<"_">>

\* the statement after its builtin returned did = [res, outf]
Record(vars, e, pos, did, checks) ==
    IF ~IsOk(did.res) THEN Ran(did.res, vars, did.outf, pos, did.res)
    ELSE IF Records(e.variable)
    THEN With(add_variables(vars, e.variable, pos.v, did.res.v, checks),
              LAMBDA added : Ran(added.res, added.vars, did.outf, pos, did.res))
    ELSE Ran(Ok(<<>>), vars, did.outf, pos, did.res)

\* an interpret that looks the destination up before it runs the builtin
interpret_checking_first(consts, vars, outf, e, checks, fs, net) ==
    IF e.k # "Statement"
    THEN Ran(Err("Invalid statement", <<>>), vars, outf, NoResult, NoResult) ELSE
    With(evaluate(consts, vars, e.offset, checks), LAMBDA pos :
         IF ~IsOk(pos) THEN Ran(pos, vars, outf, pos, NoResult)
         ELSE IF e.func.k # "Call"
         THEN Ran(Err("Invalid statement", <<>>), vars, outf, pos, NoResult)
         ELSE IF Records(e.variable)
                 /\ Key(e.variable, <<"s", "t", "a", "r", "t">>) \in DOMAIN vars
         THEN Ran(Err("Variables with name already defined", e.variable),
                  vars, outf, pos, NoResult)
         ELSE Record(vars, e, pos,
                     Dispatch(e.func.callee, consts, vars, e.func.args, pos.v,
                              outf, checks, fs, net),
                     checks))

interpret(consts, vars, outf, e, checks, fs, net) ==
    IF e.k # "Statement"
    THEN Ran(Err("Invalid statement", <<>>), vars, outf, NoResult, NoResult) ELSE
    With(evaluate(consts, vars, e.offset, checks), LAMBDA pos :
         IF ~IsOk(pos) THEN Ran(pos, vars, outf, pos, NoResult)
         ELSE IF e.func.k # "Call"
         THEN Ran(Err("Invalid statement", <<>>), vars, outf, pos, NoResult)
         ELSE Record(vars, e, pos,
                     Dispatch(e.func.callee, consts, vars, e.func.args, pos.v,
                              outf, checks, fs, net),
                     checks))

(***************************************************************************)
(* main.rs: main.  The program's state while it reads the script.          *)
(***************************************************************************)
VARIABLES
    consts,     \* the -D constants, name to text
    checks,     \* the build checks arithmetic overflow (debug) or wraps (release)
    variables,  \* the variable environment, key to usize
    outf,       \* the output file: [data, pos]
    line_no,    \* lines of the script read so far
    status,     \* "running", "done", "failed" (an error reached the user), "panicked"
    error,      \* the error that reached the user: [msg, arg, line], line 0 if none is named
    last        \* the line read last: its text, the state before it, and how it went

vars == <<consts, checks, variables, outf, line_no, status, error, last>>

MaxLines == 2

NoError == [msg |-> "", arg |-> <<>>, line |-> 0]

\* an error as the user sees it; line is the with_context annotation, 0 for none
Surface(err, line) == [msg |-> err.msg, arg |-> err.arg, line |-> line]

\* lexer errors: arr.with_context(|| format!("line {line_no}"))?
LexContext(err, n) == Surface(err, n)

\* parser errors: the `e?` inside the call's arguments returns from main before
\* the call, and so before its with_context, is evaluated
ParseContext(err, n) == Surface(err, 0)

\* interpret's errors: interpret(..).with_context(|| format!("line {line_no}"))?
InterpretContext(err, n) == Surface(err, n)

\* the record of a line: its text and number, the environment and the output
\* before it, how far it got, and what interpret returned
LineRecord(line, n, v, o, stage, stmt, ran) ==
    [line |-> line, n |-> n, vars |-> v, outf |-> o, stage |-> stage,
     stmt |-> stmt, pos |-> ran.pos, builtin |-> ran.builtin, res |-> ran.res]

NotRun(v, o) == Ran(NoResult, v, o, NoResult, NoResult)

\* the loop body once interpret has returned
AfterInterpret(line, n, v, o, stmt, ran) ==
    [status |-> CASE ran.res.r = "ok" -> "running"
                  [] ran.res.r = "err" -> "failed"
                  [] OTHER -> "panicked",
     error |-> IF ran.res.r = "err" THEN InterpretContext(ran.res, n) ELSE NoError,
     vars |-> ran.vars, outf |-> ran.outf,
     last |-> LineRecord(line, n, v, o, "exec", stmt, ran)]

\* the body of the `for` loop for line number n: the new status, error,
\* environment and output, and the record of the line
LoopBody(c, v, o, line, n, chk, fs, net) ==
    With(Lex(line), LAMBDA tokens :
         IF ~IsOk(tokens)
         THEN [status |-> "failed", error |-> LexContext(tokens, n), vars |-> v,
               outf |-> o,
               last |-> LineRecord(line, n, v, o, "lex", NoResult, NotRun(v, o))]
         ELSE With(parse(tokens.v), LAMBDA e :
         IF e.r = "none"
         THEN [status |-> "running", error |-> NoError, vars |-> v, outf |-> o,
               last |-> LineRecord(line, n, v, o, "blank", NoResult, NotRun(v, o))]
         ELSE IF e.r = "err"
         THEN [status |-> "failed", error |-> ParseContext(e, n), vars |-> v,
               outf |-> o,
               last |-> LineRecord(line, n, v, o, "parse", NoResult, NotRun(v, o))]
         ELSE AfterInterpret(line, n, v, o, e.v,
                             interpret(c, v, o, e.v, chk, fs, net))))

(***************************************************************************)
(* What the program is run on: the files it can open, the answers of the   *)
(* network, the constants of the command line, the lines of the script.    *)
(***************************************************************************)
Files == (<<"f">> :> <<17, 34, 51>>) @@ (<<"e">> :> <<>>)

NetResponses == {[ok |-> FALSE, body |-> <<>>], [ok |-> TRUE, body |-> <<170>>]}

NoNet == [ok |-> FALSE, body |-> <<>>]

\* -D VERSION=7 -D FW_PATH=f -D ALGO=modbus, or no -D at all
ConstsChoices ==
    { <<>>,
      (<<"V", "E", "R", "S", "I", "O", "N">> :> <<"7">>)
      @@ (<<"F", "W", "_", "P", "A", "T", "H">> :> <<"f">>)
      @@ (<<"A", "L", "G", "O">> :> <<"m", "o", "d", "b", "u", "s">>) }

\* <offset>:<name>:<call>
Line(offset, name, call) == offset \o <<":">> \o name \o <<":">> \o call

\* 0   2   $a.end
Offsets ==
    { <<"0">>,
      <<"2">>,
      <<"$", "a", ".", "e", "n", "d">> }

\* _   a   b
Names ==
    { <<"_">>,
      <<"a">>,
      <<"b">> }

\* u16,0x0102   file,"f"
WritingCalls ==
    { <<"u", "1", "6", ",", "0", "x", "0", "1", "0", "2">>,
      <<"f", "i", "l", "e", ",", "\"", "f", "\"">> }

\* _   a
OtherNames ==
    { <<"_">>,
      <<"a">> }

\* calls that narrow, look up, fetch, or fail: u8,7  u8,0x100  u16,0x10000
\* u32,0x01020304  u32,0x100000000  u32,$b.size  u8,$a.end-1  crc16,"modbus",0,2
\* crc16,"nope",0,2  crc16,"modbus",$b.start,1  crc16,"modbus",0,70000  file,"nofile"
\* file,"e"  url,"u"  u32,VERSION  u32,NOPE  file,FW_PATH  crc16,ALGO,0,1  nosuch,1  u8  u8,1,2
\* u8,"s"
OtherCalls ==
    { <<"u", "8", ",", "7">>,
      <<"u", "8", ",", "0", "x", "1", "0", "0">>,
      <<"u", "1", "6", ",", "0", "x", "1", "0", "0", "0", "0">>,
      <<"u", "3", "2", ",", "0", "x", "0", "1", "0", "2", "0", "3", "0", "4">>,
      <<"u", "3", "2", ",", "0", "x", "1", "0", "0", "0", "0", "0", "0", "0", "0">>,
      <<"u", "3", "2", ",", "$", "b", ".", "s", "i", "z", "e">>,
      <<"u", "8", ",", "$", "a", ".", "e", "n", "d", "-", "1">>,
      <<"c", "r", "c", "1", "6", ",", "\"", "m", "o", "d", "b", "u", "s", "\"",
        ",", "0", ",", "2">>,
      <<"c", "r", "c", "1", "6", ",", "\"", "n", "o", "p", "e", "\"", ",", "0",
        ",", "2">>,
      <<"c", "r", "c", "1", "6", ",", "\"", "m", "o", "d", "b", "u", "s", "\"",
        ",", "$", "b", ".", "s", "t", "a", "r", "t", ",", "1">>,
      <<"c", "r", "c", "1", "6", ",", "\"", "m", "o", "d", "b", "u", "s", "\"",
        ",", "0", ",", "7", "0", "0", "0", "0">>,
      <<"f", "i", "l", "e", ",", "\"", "n", "o", "f", "i", "l", "e", "\"">>,
      <<"f", "i", "l", "e", ",", "\"", "e", "\"">>,
      <<"u", "r", "l", ",", "\"", "u", "\"">>,
      <<"u", "3", "2", ",", "V", "E", "R", "S", "I", "O", "N">>,
      <<"u", "3", "2", ",", "N", "O", "P", "E">>,
      <<"f", "i", "l", "e", ",", "F", "W", "_", "P", "A", "T", "H">>,
      <<"c", "r", "c", "1", "6", ",", "A", "L", "G", "O", ",", "0", ",", "1">>,
      <<"n", "o", "s", "u", "c", "h", ",", "1">>,
      <<"u", "8">>,
      <<"u", "8", ",", "1", ",", "2">>,
      <<"u", "8", ",", "\"", "s", "\"">> }

\* offsets that add, look up, underflow, overflow, or lie past MaxSeek:
\* $a.start+$a.size  $b.end  1-2  0xffffffffffffffff+1  100  "s"
OddOffsets ==
    { <<"$", "a", ".", "s", "t", "a", "r", "t", "+", "$", "a", ".", "s", "i", "z",
        "e">>,
      <<"$", "b", ".", "e", "n", "d">>,
      <<"1", "-", "2">>,
      <<"0", "x", "f", "f", "f", "f", "f", "f", "f", "f", "f", "f", "f", "f", "f",
        "f", "f", "f", "+", "1">>,
      <<"1", "0", "0">>,
      <<"\"", "s", "\"">> }

\* blank, spaces, a comment, and lines the lexer or the parser refuses:
\* (empty)  (two spaces)  # c  0:a:u8,1 # c  @  0:a:file,"f  0x:a:u8,1  99999999999999999999:a:u8,1
\* 0:a  0 a:u8,1  0:a:u8,1 2  0:a:u8,  $a:_:u8,1  0:_:u8,1+
OddLines ==
    { <<>>,
      <<" ", " ">>,
      <<"#", " ", "c">>,
      <<"0", ":", "a", ":", "u", "8", ",", "1", " ", "#", " ", "c">>,
      <<"@">>,
      <<"0", ":", "a", ":", "f", "i", "l", "e", ",", "\"", "f">>,
      <<"0", "x", ":", "a", ":", "u", "8", ",", "1">>,
      <<"9", "9", "9", "9", "9", "9", "9", "9", "9", "9", "9", "9", "9", "9", "9",
        "9", "9", "9", "9", "9", ":", "a", ":", "u", "8", ",", "1">>,
      <<"0", ":", "a">>,
      <<"0", " ", "a", ":", "u", "8", ",", "1">>,
      <<"0", ":", "a", ":", "u", "8", ",", "1", " ", "2">>,
      <<"0", ":", "a", ":", "u", "8", ",">>,
      <<"$", "a", ":", "_", ":", "u", "8", ",", "1">>,
      <<"0", ":", "_", ":", "u", "8", ",", "1", "+">> }

Lines ==
    {Line(o, n, c) : o \in Offsets, n \in Names, c \in WritingCalls}
    \cup {Line(<<"0">>, n, c) : n \in OtherNames, c \in OtherCalls}
    \cup {Line(o, <<"_">>, <<"u", "8", ",", "7">>) : o \in OddOffsets}
    \cup OddLines

\* the function a line calls, <<>> if it does not parse
Callee(e) == IF IsOk(e) THEN e.v.func.callee ELSE <<>>

CalleeOf(tokens) == IF IsOk(tokens) THEN Callee(parse(tokens.v)) ELSE <<>>

\* the answers the network may give to this line: only a url call asks
Answers(line) ==
    IF CalleeOf(Lex(line)) = <<"u", "r", "l">> THEN NetResponses ELSE {NoNet}

(***************************************************************************)
(* The state machine.                                                      *)
(***************************************************************************)
Init ==
    /\ consts \in ConstsChoices
    /\ checks \in BOOLEAN
    /\ variables = <<>>
    /\ outf = [data |-> <<>>, pos |-> 0]
    /\ line_no = 0
    /\ status = "running"
    /\ error = NoError
    /\ last = [stage |-> "start"]

\* a loop that goes on after an error
Looping_after_error == status \in {"running", "failed"}

\* the loop goes on only while no `?` has returned from main
Looping == status = "running"

\* the loop body's results become the program's state
Assign(b) ==
    /\ status' = b.status
    /\ error' = b.error
    /\ variables' = b.vars
    /\ outf' = b.outf
    /\ last' = b.last

\* one readable line of the script goes through the loop body
ReadLine(pool) ==
    /\ Looping
    /\ line_no < MaxLines
    /\ \E line \in pool : \E net \in Answers(line) :
         Assign(LoopBody(consts, variables, outf, line, line_no + 1, checks,
                         Files, net))
    /\ line_no' = line_no + 1
    /\ UNCHANGED <<consts, checks>>

\* a line that cannot be read as UTF-8: `if let Ok(sline) = buf` skips it
SkipUnreadable ==
    /\ Looping
    /\ line_no < MaxLines
    /\ line_no' = line_no + 1
    /\ last' = [stage |-> "unreadable"]
    /\ UNCHANGED <<consts, checks, variables, outf, status, error>>

\* the script has no more lines: "Successfully written."
EndOfScript ==
    /\ Looping
    /\ status' = "done"
    /\ last' = [stage |-> "end"]
    /\ UNCHANGED <<consts, checks, variables, outf, line_no, error>>

ReadScriptLine == ReadLine(Lines)

Next == ReadScriptLine \/ SkipUnreadable \/ EndOfScript

Spec == Init /\ [][Next]_vars

(***************************************************************************)
(* Properties.  `last` holds the line read last and the state before it;   *)
(* the names below read it.                                                *)
(***************************************************************************)
Executed == last.stage = "exec"

Dest == last.stmt.variable

LastCallee == last.stmt.func.callee

LastArgs == last.stmt.func.args

StartKey(name) == Key(name, <<"s", "t", "a", "r", "t">>)

SizeKey(name) == Key(name, <<"s", "i", "z", "e">>)

EndKey(name) == Key(name, <<"e", "n", "d">>)

KeysOf(name) == {StartKey(name), SizeKey(name), EndKey(name)}

DuplicateMsg == "Variables with name already defined"

\* the statement read last names a destination an earlier statement defined
Redefines == Executed /\ Dest # <<"_">> /\ StartKey(Dest) \in DOMAIN last.vars

\* C1: a statement naming a destination (other than `_`) that an earlier
\* statement defined never succeeds; when its offset and builtin succeed it
\* fails with the duplicate-definition error naming the destination; and the
\* environment after it is the environment before it, the first statement's
\* start, size and end included.
C1_DuplicateRejected ==
    Redefines =>
        /\ status # "running"
        /\ IsOk(last.builtin) =>
               /\ status = "failed"
               /\ error.msg = DuplicateMsg
               /\ error.arg = Dest
        /\ variables = last.vars

\* C1's case: the second statement's builtin succeeded and the statement failed
C1_Witness ==
    /\ Redefines
    /\ IsOk(last.builtin)
    /\ status = "failed"
    /\ KeysOf(Dest) \subseteq DOMAIN variables

\* the expression a text is parsed to
Parsed(text) == expr(Lex(text).v, 0).v.x

\* $name.start + $name.size  and  $name.end, as the script writes them
SumText(name) ==
    <<"$">> \o name \o <<".", "s", "t", "a", "r", "t", " ", "+", " ", "$">> \o name \o <<".", "s", "i", "z", "e">>

EndText(name) == <<"$">> \o name \o <<".", "e", "n", "d">>

\* the destination names of every script line
AllNames == {<<"a">>, <<"b">>, <<"c">>}

\* C2: for every destination name, none or all three of its keys are in the
\* environment, no other key is, and when they are `$a.start + $a.size`
\* evaluates to what `$a.end` evaluates to; the statement that defines a name
\* stores its evaluated offset as start and the builtin's length as size.
C2_RegionTriple ==
    /\ DOMAIN variables = UNION {KeysOf(n) : n \in {m \in AllNames :
                                     StartKey(m) \in DOMAIN variables}}
    /\ \A n \in AllNames :
         StartKey(n) \in DOMAIN variables =>
            /\ IsOk(evaluate(consts, variables, Parsed(EndText(n)), checks))
            /\ evaluate(consts, variables, Parsed(SumText(n)), checks)
                 = evaluate(consts, variables, Parsed(EndText(n)), checks)
    /\ (Executed /\ IsOk(last.res) /\ Dest # <<"_">>) =>
            /\ variables[StartKey(Dest)] = last.pos.v
            /\ variables[SizeKey(Dest)] = last.builtin.v

\* C2's case: a region of nonzero start and size is in the environment
C2_Witness ==
    /\ Executed /\ IsOk(last.res) /\ Dest # <<"_">>
    /\ ToNat(variables[StartKey(Dest)]) > 0
    /\ ToNat(variables[SizeKey(Dest)]) > 0
    /\ ToNat(variables[EndKey(Dest)])
         = ToNat(variables[StartKey(Dest)]) + ToNat(variables[SizeKey(Dest)])

\* C9: every step is taken while no error has occurred, reads the next line
\* in order, and a line that fails (in the lexer, the parser or interpret)
\* ends the run: nothing changes after the first error.
C9_FirstErrorAborts ==
    [][/\ status = "running"
       /\ last'.stage \in {"lex", "parse", "blank", "exec"} =>
             /\ last'.n = line_no + 1
             /\ last'.vars = variables
             /\ last'.outf = outf
       /\ last'.stage \in {"lex", "parse", "blank", "exec", "unreadable"} =>
             line_no' = line_no + 1
       /\ last'.stage \in {"lex", "parse"} => status' = "failed"
       /\ (last'.stage = "exec" /\ ~IsOk(last'.res)) => status' # "running"]_vars

\* C9's case: an error occurred while the script had lines left
C9_Witness == status = "failed" /\ line_no < MaxLines

\* C10: a statement whose destination is `_` leaves the environment as it was
\* and never fails with the duplicate-definition error.
C10_DiscardNeverRecords ==
    (Executed /\ Dest = <<"_">>) =>
        /\ variables = last.vars
        /\ DOMAIN variables = DOMAIN last.vars
        /\ error.msg # DuplicateMsg

\* C10's case: a second line, a `_` statement that succeeded, with a region
\* of another statement in the environment
C10_Witness ==
    /\ Executed /\ Dest = <<"_">> /\ IsOk(last.res)
    /\ last.n = 2
    /\ DOMAIN variables # {}
    /\ outf.data # last.outf.data

\* the tokens of the line read last (it got past the lexer)
Lexed == last.stage \in {"parse", "blank", "exec"}

LastTokens == Lex(last.line).v

\* the variables a line refers to: $ IDENT . IDENT
VarRefs(tokens) ==
    {Key(tokens[i + 1].v, tokens[i + 3].v) :
        i \in {j \in 1..(Len(tokens) - 3) :
                 /\ tokens[j].t = "Dollar" /\ tokens[j + 1].t = "Ident"
                 /\ tokens[j + 2].t = "Dot" /\ tokens[j + 3].t = "Ident"}}

\* the constants a line refers to: a bare identifier as an argument
ConstRefs(tokens) ==
    {tokens[i].v : i \in {j \in 2..Len(tokens) :
                            tokens[j].t = "Ident" /\ tokens[j - 1].t = "Comma"}}

UndefinedVars == {v \in VarRefs(LastTokens) : v \notin DOMAIN last.vars}

UndefinedConsts == {c \in ConstRefs(LastTokens) : c \notin DOMAIN consts}

\* the line read last left the environment and the output bytes as they were
NoSideEffects == variables = last.vars /\ outf.data = last.outf.data

\* a line referring to an undefined variable fails naming it, without effect
UndefinedVariableFails ==
    (Lexed /\ UndefinedVars # {} /\ ConstRefs(LastTokens) = {}) =>
        /\ status = "failed"
        /\ error.msg = "Undefined variable"
        /\ error.arg \in UndefinedVars
        /\ NoSideEffects

\* a line referring to an undefined constant fails naming it, without effect
UndefinedConstantFails ==
    (Lexed /\ UndefinedConsts # {} /\ UndefinedVars = {}) =>
        /\ status = "failed"
        /\ error.msg = "Undefined constant"
        /\ error.arg \in UndefinedConsts
        /\ NoSideEffects

\* C3: a statement that refers to an undefined variable or to an undefined
\* constant fails with an error naming the missing identifier, and leaves
\* the output bytes and the environment as they were.
C3_UndefinedReferenceFails == UndefinedVariableFails /\ UndefinedConstantFails

\* C4: every error that reaches the user names the 1-based number of the
\* line that produced it.
C4_ErrorsNameTheLine ==
    status = "failed" => (error.line = last.n /\ error.line = line_no /\ error.line >= 1)

\* the one constant a line of the script refers to
TheConst == CHOOSE c \in ConstRefs(LastTokens) : TRUE

\* C5: a line with a bare identifier as an argument, the constant defined, is
\* accepted by the parser and the constant resolved: `u32,VERSION` writes the
\* constant's base-10 value, `file,FW_PATH` copies the file the constant
\* names, `crc16,ALGO,..` uses the algorithm the constant names.
C5_BareIdentifierIsConstant ==
    (Lexed /\ ConstRefs(LastTokens) # {} /\ UndefinedConsts = {}
        /\ UndefinedVars = {}) =>
        /\ last.stage = "exec"
        /\ IsOk(last.builtin)
        /\ LastCallee = <<"u", "3", "2">> =>
             SubSeq(outf.data, ToNat(last.pos.v) + 1, ToNat(last.pos.v) + 4)
               = to_le_bytes(from_str_radix(consts[TheConst], 10).v, 4)
        /\ LastCallee = <<"f", "i", "l", "e">> =>
             SubSeq(outf.data, ToNat(last.pos.v) + 1,
                    ToNat(last.pos.v) + Len(Files[consts[TheConst]]))
               = Files[consts[TheConst]]
        /\ LastCallee = <<"c", "r", "c", "1", "6">> => AlgoIndex(consts[TheConst]) # 0

(***************************************************************************)
(* The integer builtins on their own: scripts of u8, u16 and u32           *)
(* statements whose values sit on either side of 2^8, 2^16 and 2^32, the   *)
(* later ones writing over and next to what the earlier ones wrote.        *)
(***************************************************************************)
\* 0:_:u8,0xff   0:_:u8,0x100   0:_:u8,0xffff   0:_:u8,0x10000
\* 0:_:u8,0x01020304   0:_:u8,0xffffffff   0:_:u8,0x100000000
\* 0:_:u16,0xff   0:_:u16,0x100   0:_:u16,0xffff   0:_:u16,0x10000
\* 0:_:u16,0x01020304   0:_:u16,0xffffffff   0:_:u16,0x100000000
\* 0:_:u32,0xff   0:_:u32,0x100   0:_:u32,0xffff   0:_:u32,0x10000
\* 0:_:u32,0x01020304   0:_:u32,0xffffffff   0:_:u32,0x100000000
\* 1:_:u8,0xfe   1:_:u8,0x100   1:_:u16,0xfe   1:_:u16,0x100
\* 1:_:u32,0xfe   1:_:u32,0x100   3:_:u8,0xfe   3:_:u8,0x100
\* 3:_:u16,0xfe   3:_:u16,0x100   3:_:u32,0xfe   3:_:u32,0x100
\* 0:_:u16,256+255   5:_:u32,4294967295
IntLines ==
    { <<"0", ":", "_", ":", "u", "8", ",", "0", "x", "f", "f">>,
      <<"0", ":", "_", ":", "u", "8", ",", "0", "x", "1", "0", "0">>,
      <<"0", ":", "_", ":", "u", "8", ",", "0", "x", "f", "f", "f", "f">>,
      <<"0", ":", "_", ":", "u", "8", ",", "0", "x", "1", "0", "0", "0",
          "0">>,
      <<"0", ":", "_", ":", "u", "8", ",", "0", "x", "0", "1", "0", "2",
          "0", "3", "0", "4">>,
      <<"0", ":", "_", ":", "u", "8", ",", "0", "x", "f", "f", "f", "f",
          "f", "f", "f", "f">>,
      <<"0", ":", "_", ":", "u", "8", ",", "0", "x", "1", "0", "0", "0",
          "0", "0", "0", "0", "0">>,
      <<"0", ":", "_", ":", "u", "1", "6", ",", "0", "x", "f", "f">>,
      <<"0", ":", "_", ":", "u", "1", "6", ",", "0", "x", "1", "0", "0">>,
      <<"0", ":", "_", ":", "u", "1", "6", ",", "0", "x", "f", "f", "f",
          "f">>,
      <<"0", ":", "_", ":", "u", "1", "6", ",", "0", "x", "1", "0", "0",
          "0", "0">>,
      <<"0", ":", "_", ":", "u", "1", "6", ",", "0", "x", "0", "1", "0",
          "2", "0", "3", "0", "4">>,
      <<"0", ":", "_", ":", "u", "1", "6", ",", "0", "x", "f", "f", "f",
          "f", "f", "f", "f", "f">>,
      <<"0", ":", "_", ":", "u", "1", "6", ",", "0", "x", "1", "0", "0",
          "0", "0", "0", "0", "0", "0">>,
      <<"0", ":", "_", ":", "u", "3", "2", ",", "0", "x", "f", "f">>,
      <<"0", ":", "_", ":", "u", "3", "2", ",", "0", "x", "1", "0", "0">>,
      <<"0", ":", "_", ":", "u", "3", "2", ",", "0", "x", "f", "f", "f",
          "f">>,
      <<"0", ":", "_", ":", "u", "3", "2", ",", "0", "x", "1", "0", "0",
          "0", "0">>,
      <<"0", ":", "_", ":", "u", "3", "2", ",", "0", "x", "0", "1", "0",
          "2", "0", "3", "0", "4">>,
      <<"0", ":", "_", ":", "u", "3", "2", ",", "0", "x", "f", "f", "f",
          "f", "f", "f", "f", "f">>,
      <<"0", ":", "_", ":", "u", "3", "2", ",", "0", "x", "1", "0", "0",
          "0", "0", "0", "0", "0", "0">>,
      <<"1", ":", "_", ":", "u", "8", ",", "0", "x", "f", "e">>,
      <<"1", ":", "_", ":", "u", "8", ",", "0", "x", "1", "0", "0">>,
      <<"1", ":", "_", ":", "u", "1", "6", ",", "0", "x", "f", "e">>,
      <<"1", ":", "_", ":", "u", "1", "6", ",", "0", "x", "1", "0", "0">>,
      <<"1", ":", "_", ":", "u", "3", "2", ",", "0", "x", "f", "e">>,
      <<"1", ":", "_", ":", "u", "3", "2", ",", "0", "x", "1", "0", "0">>,
      <<"3", ":", "_", ":", "u", "8", ",", "0", "x", "f", "e">>,
      <<"3", ":", "_", ":", "u", "8", ",", "0", "x", "1", "0", "0">>,
      <<"3", ":", "_", ":", "u", "1", "6", ",", "0", "x", "f", "e">>,
      <<"3", ":", "_", ":", "u", "1", "6", ",", "0", "x", "1", "0", "0">>,
      <<"3", ":", "_", ":", "u", "3", "2", ",", "0", "x", "f", "e">>,
      <<"3", ":", "_", ":", "u", "3", "2", ",", "0", "x", "1", "0", "0">>,
      <<"0", ":", "_", ":", "u", "1", "6", ",", "2", "5", "6", "+", "2",
          "5", "5">>,
      <<"5", ":", "_", ":", "u", "3", "2", ",", "4", "2", "9", "4", "9",
          "6", "7", "2", "9", "5">> }

ReadIntLine == ReadLine(IntLines)

NextInt == ReadIntLine \/ EndOfScript

SpecInt == Init /\ [][NextInt]_vars

\* the width in bytes of the integer builtin called last, 0 if none
IntWidth ==
    CASE LastCallee = <<"u", "8">> -> 1
      [] LastCallee = <<"u", "1", "6">> -> 2
      [] LastCallee = <<"u", "3", "2">> -> 4
      [] OTHER -> 0

\* the offset of the statement read last
LastPos == ToNat(last.pos.v)

\* the statement's offset was evaluated and the output accepts a seek to it
Seekable == IsOk(last.pos) /\ IsSmall(last.pos.v) /\ LastPos <= MaxSeek

\* argument i of the statement read last, evaluated before the statement
ArgValue(i) == evaluate(consts, last.vars, LastArgs[i], checks)

\* an integer statement with one argument that has a value v
IntStatement ==
    /\ Executed /\ IntWidth # 0 /\ Len(LastArgs) = 1
    /\ Seekable /\ IsOk(ArgValue(1))

\* 2^(8w) as a usize, for w = 1, 2, 4
TwoToThe8(w) ==
    [i \in 1..UsizeLimbs |->
        IF 8 * w = 16 * (i - 1) + 8 THEN ByteRange
        ELSE IF 8 * w = 16 * (i - 1) THEN 1 ELSE 0]

\* the usize whose little-endian bytes these are
FromLe(bytes) ==
    [i \in 1..UsizeLimbs |->
        (IF 2 * i - 1 <= Len(bytes) THEN bytes[2 * i - 1] ELSE 0)
        + ByteRange * (IF 2 * i <= Len(bytes) THEN bytes[2 * i] ELSE 0)]

\* the output after the statement, outside [p, p+w): as long as it has to be,
\* every byte that was there before as it was, and what lies between the old end and
\* p reading as zero
Elsewhere(p, w) ==
    /\ Len(outf.data) = Max(Len(last.outf.data), p + w)
    /\ \A i \in 1..Len(outf.data) :
         (i <= p \/ i > p + w) =>
            outf.data[i] = (IF i <= Len(last.outf.data) THEN last.outf.data[i] ELSE 0)

\* C7: a u8/u16/u32 statement with argument value v at an offset pos the
\* output accepts succeeds exactly when v < 2^8, 2^16, 2^32; then it stores
\* the w bytes of v low byte first at output[pos, pos+w), changes no other
\* byte and returns w; when v does not fit it fails and writes nothing.
C7_IntegerNarrowing ==
    IntStatement =>
        IF Less(ArgValue(1).v, TwoToThe8(IntWidth))
        THEN /\ last.builtin = Ok(Usize(IntWidth))
             /\ FromLe(SubSeq(outf.data, LastPos + 1, LastPos + IntWidth))
                  = ArgValue(1).v
             /\ Elsewhere(LastPos, IntWidth)
        ELSE /\ status = "failed"
             /\ last.builtin.r = "err"
             /\ outf.data = last.outf.data

\* `u32` of 0x01020304 has stored 04 03 02 01 over bytes written before
C7_Witness ==
    /\ IntStatement /\ IntWidth = 4
    /\ LastArgs[1] = Literal(<<772, 258, 0, 0>>)
    /\ Len(last.outf.data) > 0
    /\ SubSeq(outf.data, LastPos + 1, LastPos + 4) = <<4, 3, 2, 1>>
    /\ last.builtin = Ok(Usize(4))

(***************************************************************************)
(* crc16 on its own: scripts that write a few bytes and then summarise a   *)
(* range of them, the checksum landing before, inside and after the range, *)
(* the range lying inside the output, across its end and beyond it.        *)
(***************************************************************************)
\* 0:_:u32,0x01020304   0:_:file,"f"   2:_:u16,0x0102
CrcWriters ==
    { <<"0", ":", "_", ":", "u", "3", "2", ",", "0", "x", "0", "1", "0",
          "2", "0", "3", "0", "4">>,
      <<"0", ":", "_", ":", "f", "i", "l", "e", ",", "\"", "f", "\"">>,
      <<"2", ":", "_", ":", "u", "1", "6", ",", "0", "x", "0", "1", "0",
          "2">> }

\* 0:c:crc16,"ibm_sdlc",0,4   1:c:crc16,"ibm_sdlc",0,4
\* 4:c:crc16,"ibm_sdlc",0,4   0:c:crc16,"ibm_sdlc",0,2
\* 1:c:crc16,"ibm_sdlc",0,2   4:c:crc16,"ibm_sdlc",0,2
\* 0:c:crc16,"ibm_sdlc",1,2   1:c:crc16,"ibm_sdlc",1,2
\* 4:c:crc16,"ibm_sdlc",1,2   0:c:crc16,"ibm_sdlc",2,4
\* 1:c:crc16,"ibm_sdlc",2,4   4:c:crc16,"ibm_sdlc",2,4
\* 0:c:crc16,"ibm_sdlc",5,1   1:c:crc16,"ibm_sdlc",5,1
\* 4:c:crc16,"ibm_sdlc",5,1   0:c:crc16,"modbus",0,4
\* 1:c:crc16,"modbus",0,4   4:c:crc16,"modbus",0,4
\* 0:c:crc16,"modbus",0,2   1:c:crc16,"modbus",0,2
\* 4:c:crc16,"modbus",0,2   0:c:crc16,"modbus",1,2
\* 1:c:crc16,"modbus",1,2   4:c:crc16,"modbus",1,2
\* 0:c:crc16,"modbus",2,4   1:c:crc16,"modbus",2,4
\* 4:c:crc16,"modbus",2,4   0:c:crc16,"modbus",5,1
\* 1:c:crc16,"modbus",5,1   4:c:crc16,"modbus",5,1
\* 4:c:crc16,"ibm_sdlc",0,0   6:_:crc16,"modbus",0,3
CrcCalls ==
    { <<"0", ":", "c", ":", "c", "r", "c", "1", "6", ",", "\"", "i", "b",
          "m", "_", "s", "d", "l", "c", "\"", ",", "0", ",", "4">>,
      <<"1", ":", "c", ":", "c", "r", "c", "1", "6", ",", "\"", "i", "b",
          "m", "_", "s", "d", "l", "c", "\"", ",", "0", ",", "4">>,
      <<"4", ":", "c", ":", "c", "r", "c", "1", "6", ",", "\"", "i", "b",
          "m", "_", "s", "d", "l", "c", "\"", ",", "0", ",", "4">>,
      <<"0", ":", "c", ":", "c", "r", "c", "1", "6", ",", "\"", "i", "b",
          "m", "_", "s", "d", "l", "c", "\"", ",", "0", ",", "2">>,
      <<"1", ":", "c", ":", "c", "r", "c", "1", "6", ",", "\"", "i", "b",
          "m", "_", "s", "d", "l", "c", "\"", ",", "0", ",", "2">>,
      <<"4", ":", "c", ":", "c", "r", "c", "1", "6", ",", "\"", "i", "b",
          "m", "_", "s", "d", "l", "c", "\"", ",", "0", ",", "2">>,
      <<"0", ":", "c", ":", "c", "r", "c", "1", "6", ",", "\"", "i", "b",
          "m", "_", "s", "d", "l", "c", "\"", ",", "1", ",", "2">>,
      <<"1", ":", "c", ":", "c", "r", "c", "1", "6", ",", "\"", "i", "b",
          "m", "_", "s", "d", "l", "c", "\"", ",", "1", ",", "2">>,
      <<"4", ":", "c", ":", "c", "r", "c", "1", "6", ",", "\"", "i", "b",
          "m", "_", "s", "d", "l", "c", "\"", ",", "1", ",", "2">>,
      <<"0", ":", "c", ":", "c", "r", "c", "1", "6", ",", "\"", "i", "b",
          "m", "_", "s", "d", "l", "c", "\"", ",", "2", ",", "4">>,
      <<"1", ":", "c", ":", "c", "r", "c", "1", "6", ",", "\"", "i", "b",
          "m", "_", "s", "d", "l", "c", "\"", ",", "2", ",", "4">>,
      <<"4", ":", "c", ":", "c", "r", "c", "1", "6", ",", "\"", "i", "b",
          "m", "_", "s", "d", "l", "c", "\"", ",", "2", ",", "4">>,
      <<"0", ":", "c", ":", "c", "r", "c", "1", "6", ",", "\"", "i", "b",
          "m", "_", "s", "d", "l", "c", "\"", ",", "5", ",", "1">>,
      <<"1", ":", "c", ":", "c", "r", "c", "1", "6", ",", "\"", "i", "b",
          "m", "_", "s", "d", "l", "c", "\"", ",", "5", ",", "1">>,
      <<"4", ":", "c", ":", "c", "r", "c", "1", "6", ",", "\"", "i", "b",
          "m", "_", "s", "d", "l", "c", "\"", ",", "5", ",", "1">>,
      <<"0", ":", "c", ":", "c", "r", "c", "1", "6", ",", "\"", "m", "o",
          "d", "b", "u", "s", "\"", ",", "0", ",", "4">>,
      <<"1", ":", "c", ":", "c", "r", "c", "1", "6", ",", "\"", "m", "o",
          "d", "b", "u", "s", "\"", ",", "0", ",", "4">>,
      <<"4", ":", "c", ":", "c", "r", "c", "1", "6", ",", "\"", "m", "o",
          "d", "b", "u", "s", "\"", ",", "0", ",", "4">>,
      <<"0", ":", "c", ":", "c", "r", "c", "1", "6", ",", "\"", "m", "o",
          "d", "b", "u", "s", "\"", ",", "0", ",", "2">>,
      <<"1", ":", "c", ":", "c", "r", "c", "1", "6", ",", "\"", "m", "o",
          "d", "b", "u", "s", "\"", ",", "0", ",", "2">>,
      <<"4", ":", "c", ":", "c", "r", "c", "1", "6", ",", "\"", "m", "o",
          "d", "b", "u", "s", "\"", ",", "0", ",", "2">>,
      <<"0", ":", "c", ":", "c", "r", "c", "1", "6", ",", "\"", "m", "o",
          "d", "b", "u", "s", "\"", ",", "1", ",", "2">>,
      <<"1", ":", "c", ":", "c", "r", "c", "1", "6", ",", "\"", "m", "o",
          "d", "b", "u", "s", "\"", ",", "1", ",", "2">>,
      <<"4", ":", "c", ":", "c", "r", "c", "1", "6", ",", "\"", "m", "o",
          "d", "b", "u", "s", "\"", ",", "1", ",", "2">>,
      <<"0", ":", "c", ":", "c", "r", "c", "1", "6", ",", "\"", "m", "o",
          "d", "b", "u", "s", "\"", ",", "2", ",", "4">>,
      <<"1", ":", "c", ":", "c", "r", "c", "1", "6", ",", "\"", "m", "o",
          "d", "b", "u", "s", "\"", ",", "2", ",", "4">>,
      <<"4", ":", "c", ":", "c", "r", "c", "1", "6", ",", "\"", "m", "o",
          "d", "b", "u", "s", "\"", ",", "2", ",", "4">>,
      <<"0", ":", "c", ":", "c", "r", "c", "1", "6", ",", "\"", "m", "o",
          "d", "b", "u", "s", "\"", ",", "5", ",", "1">>,
      <<"1", ":", "c", ":", "c", "r", "c", "1", "6", ",", "\"", "m", "o",
          "d", "b", "u", "s", "\"", ",", "5", ",", "1">>,
      <<"4", ":", "c", ":", "c", "r", "c", "1", "6", ",", "\"", "m", "o",
          "d", "b", "u", "s", "\"", ",", "5", ",", "1">>,
      <<"4", ":", "c", ":", "c", "r", "c", "1", "6", ",", "\"", "i", "b",
          "m", "_", "s", "d", "l", "c", "\"", ",", "0", ",", "0">>,
      <<"6", ":", "_", ":", "c", "r", "c", "1", "6", ",", "\"", "m", "o",
          "d", "b", "u", "s", "\"", ",", "0", ",", "3">> }

CrcLines == CrcWriters \cup CrcCalls

ReadCrcLine == ReadLine(CrcLines)

NextCrc == ReadCrcLine \/ EndOfScript

SpecCrc == Init /\ [][NextCrc]_vars

\* a crc16 statement with a catalogued algorithm, an address the output
\* accepts a seek to and a length a buffer can be had for
CrcStatement ==
    /\ Executed /\ LastCallee = <<"c", "r", "c", "1", "6">> /\ Len(LastArgs) = 3
    /\ LastArgs[1].k = "Str" /\ AlgoIndex(LastArgs[1].v) # 0
    /\ IsOk(ArgValue(2)) /\ IsSmall(ArgValue(2).v)
    /\ ToNat(ArgValue(2).v) <= MaxSeek
    /\ IsOk(ArgValue(3)) /\ IsSmall(ArgValue(3).v)
    /\ ToNat(ArgValue(3).v) <= MaxAlloc
    /\ Seekable

CrcAddr == ToNat(ArgValue(2).v)

CrcLen == ToNat(ArgValue(3).v)

\* output[addr, addr+len) before the statement, bytes at or past the end of
\* the output taken as zero
Window(data, addr, len) ==
    [i \in 1..len |-> IF addr + i <= Len(data) THEN data[addr + i] ELSE 0]

\* the bytes of output[addr, addr+len) that are there before the statement
Present(data, addr, len) ==
    IF addr >= Len(data) THEN <<>>
    ELSE SubSeq(data, addr + 1, Min(addr + len, Len(data)))

\* the named CRC of the bytes, low byte first
CrcBytes(bytes) ==
    <<checksum(ALGOS[AlgoIndex(LastArgs[1].v)], bytes) % ByteRange,
      checksum(ALGOS[AlgoIndex(LastArgs[1].v)], bytes) \div ByteRange>>

\* what a crc16 statement does apart from which bytes it summarises: two
\* bytes at its own offset, length 2, nothing else changed, and the region
\* (pos, 2, pos+2) recorded under a fresh destination
CrcPlacement(crc) ==
    /\ last.builtin = Ok(Usize(2))
    /\ SubSeq(outf.data, LastPos + 1, LastPos + 2) = crc
    /\ Elsewhere(LastPos, 2)
    /\ (Dest # <<"_">> /\ StartKey(Dest) \notin DOMAIN last.vars) =>
          /\ KeysOf(Dest) \subseteq DOMAIN variables
          /\ variables[StartKey(Dest)] = Usize(LastPos)
          /\ variables[SizeKey(Dest)] = Usize(2)
          /\ variables[EndKey(Dest)] = Usize(LastPos + 2)

\* C6: as the claim states it, the CRC taken over the bytes that are present
\* in output[addr, addr+len) when the statement starts.
C6_CrcOfPresentBytes ==
    CrcStatement =>
        CrcPlacement(CrcBytes(Present(last.outf.data, CrcAddr, CrcLen)))

\* C6 (amended): a crc16 statement with a catalogued algorithm writes at
\* output[pos, pos+2) the little-endian CRC of a buffer of len bytes holding
\* output[addr, addr+len) as it is when the statement starts, every byte at
\* or past the end of the output taken as zero; it returns 2, records
\* (pos, 2, pos+2) and changes no other byte, wherever pos lies.
C6_CrcOfZeroPaddedWindow ==
    CrcStatement =>
        CrcPlacement(CrcBytes(Window(last.outf.data, CrcAddr, CrcLen)))

\* a range that runs past the end of the output has been summarised: over
\* 11 22 33, `4:c:crc16,"ibm_sdlc",0,4` takes 11 22 33 00, whose
\* CRC-16/IBM-SDLC is 0x098d, and stores 8d 09 at offset 4
C6_Witness ==
    /\ CrcStatement
    /\ LastArgs[1].v = <<"i", "b", "m", "_", "s", "d", "l", "c">>
    /\ last.outf.data = <<17, 34, 51>>
    /\ CrcAddr = 0 /\ CrcLen = 4 /\ LastPos = 4
    /\ outf.data = <<17, 34, 51, 0, 141, 9>>
    /\ EndKey(Dest) \in DOMAIN variables
    /\ variables[EndKey(Dest)] = Usize(6)

\* the known answer: CRC-16/IBM-SDLC of 04 03 02 01 is 0x436f, stored 6f 43
\* at offset 4, right after the four bytes
C6_KnownAnswer ==
    /\ CrcStatement
    /\ LastArgs[1].v = <<"i", "b", "m", "_", "s", "d", "l", "c">>
    /\ last.outf.data = <<4, 3, 2, 1>>
    /\ CrcAddr = 0 /\ CrcLen = 4 /\ LastPos = 4
    /\ outf.data = <<4, 3, 2, 1, 111, 67>>

(***************************************************************************)
(* Chains of + and - as offsets: a chain is its terms and the operators    *)
(* between them; the script line is its text, the reference value its      *)
(* grouping to the right worked out on the naturals.                       *)
(***************************************************************************)
\* a literal 0..9, or one of the fields of the region `a`
Lit(n) == [k |-> "lit", n |-> n]

Var(field) == [k |-> "var", key |-> Key(<<"a">>, field)]

Chain(terms, ops) == [terms |-> terms, ops |-> ops]

\* the ways to put + and - between n terms
OpsOf(n) == [1..(n - 1) -> {"+", "-"}]

ChainTerms ==
    { <<Lit(5), Lit(3), Lit(2)>>,
      <<Lit(3), Lit(2), Lit(1)>>,
      <<Lit(4), Lit(1), Lit(3)>>,
      <<Lit(6), Var(<<"e", "n", "d">>), Var(<<"s", "i", "z", "e">>)>>,
      <<Var(<<"e", "n", "d">>), Lit(1), Var(<<"s", "t", "a", "r", "t">>)>>,
      <<Lit(6), Lit(4), Lit(2), Lit(1)>>,
      <<Lit(1), Lit(2)>>,
      <<Lit(2)>> }

Chains == UNION {{Chain(t, o) : o \in OpsOf(Len(t))} : t \in ChainTerms}

\* the decimal digits in order
DigitChars == <<"0", "1", "2", "3", "4", "5", "6", "7", "8", "9">>

TermText(t) ==
    IF t.k = "lit" THEN <<DigitChars[t.n + 1]>> ELSE <<"$">> \o t.key

\* t1 op1 t2 op2 t3 ...
RECURSIVE ChainText(_, _)
ChainText(c, i) ==
    IF i = Len(c.terms) THEN TermText(c.terms[i])
    ELSE TermText(c.terms[i]) \o <<c.ops[i]>> \o ChainText(c, i + 1)

\* <chain>:_:u8,7
ChainLine(c) == Line(ChainText(c, 1), <<"_">>, <<"u", "8", ",", "7">>)

\* 0:a:u16,0x0102 defines a.start = 0, a.size = 2, a.end = 2
ChainDefiners == {<<"0", ":", "a", ":", "u", "1", "6", ",", "0", "x", "0", "1", "0", "2">>}

ChainLines == ChainDefiners \cup {ChainLine(c) : c \in Chains}

ReadChainLine == ReadLine(ChainLines)

NextExpr == ReadChainLine \/ EndOfScript

SpecExpr == Init /\ [][NextExpr]_vars

\* the terms of the chain all have a value before the line
TermsDefined(c) ==
    \A i \in 1..Len(c.terms) :
        c.terms[i].k = "var" => c.terms[i].key \in DOMAIN last.vars

TermValue(t) == IF t.k = "lit" THEN t.n ELSE ToNat(last.vars[t.key])

\* t_i op_i (t_i+1 op_i+1 (...)) on the integers
RECURSIVE RightGrouped(_, _)
RightGrouped(c, i) ==
    IF i = Len(c.terms) THEN TermValue(c.terms[i])
    ELSE IF c.ops[i] = "+"
         THEN TermValue(c.terms[i]) + RightGrouped(c, i + 1)
         ELSE TermValue(c.terms[i]) - RightGrouped(c, i + 1)

\* (((t_1 op_1 t_2) op_2 t_3) ...) up to term i on the integers
RECURSIVE LeftGrouped(_, _)
LeftGrouped(c, i) ==
    IF i = 1 THEN TermValue(c.terms[1])
    ELSE IF c.ops[i - 1] = "+"
         THEN LeftGrouped(c, i - 1) + TermValue(c.terms[i])
         ELSE LeftGrouped(c, i - 1) - TermValue(c.terms[i])

\* every intermediate result of the grouping to the right is unsigned
InRange(c) == \A i \in 1..Len(c.terms) : RightGrouped(c, i) >= 0

\* the line read last is this chain's, its terms defined and in range
ChainRead(c) ==
    /\ last.stage \in {"parse", "exec"}
    /\ last.line = ChainLine(c)
    /\ TermsDefined(c)
    /\ InRange(c)

\* C8: a chain t1 op1 t2 op2 t3 ... of literals and defined variables whose
\* intermediate results stay unsigned is parsed and evaluated as
\* t1 op1 (t2 op2 (t3 ...)).
C8_ChainsGroupToTheRight ==
    \A c \in Chains :
        ChainRead(c) =>
            /\ Executed
            /\ last.pos = Ok(Usize(RightGrouped(c, 1)))

\* a chain has been evaluated whose value grouped to the left is another:
\* 5-3-2 as 5-(3-2) = 4, or 6-$a.end-$a.size as 6-(2-2) = 6
C8_Witness ==
    \E c \in Chains :
        /\ ChainRead(c)
        /\ Len(c.terms) >= 3
        /\ c.ops[1] = "-" /\ c.ops[2] = "-"
        /\ LeftGrouped(c, Len(c.terms)) # RightGrouped(c, 1)
        /\ last.pos = Ok(Usize(RightGrouped(c, 1)))

(***************************************************************************)
(* The `file` statement and its frame.                                     *)
(***************************************************************************)
\* a `file` statement with a quoted path that succeeded, the duplicate check
\* included
FileSucceeded ==
    /\ Executed /\ LastCallee = <<"f", "i", "l", "e">>
    /\ Len(LastArgs) = 1 /\ LastArgs[1].k = "Str"
    /\ IsOk(last.res)

\* the bytes of the file the statement names
Source == Files[LastArgs[1].v]

\* C11: a successful `file` statement at offset pos whose source has n bytes
\* leaves output[pos, pos+n) identical to the source, records name.start =
\* pos, name.size = n, name.end = pos + n (nothing under `_`), and every
\* output byte outside [pos, pos+n) that existed before keeps its content.
C11_FileFrame ==
    FileSucceeded =>
        /\ status = "running"
        /\ Len(outf.data) >= Len(last.outf.data)
        /\ Len(Source) > 0 =>
             /\ Len(outf.data) >= LastPos + Len(Source)
             /\ SubSeq(outf.data, LastPos + 1, LastPos + Len(Source)) = Source
        /\ \A i \in 1..Len(last.outf.data) :
             (i <= LastPos \/ i > LastPos + Len(Source)) =>
                outf.data[i] = last.outf.data[i]
        /\ IF Dest = <<"_">> THEN variables = last.vars
           ELSE /\ DOMAIN variables = DOMAIN last.vars \cup KeysOf(Dest)
                /\ variables[StartKey(Dest)] = Usize(LastPos)
                /\ variables[SizeKey(Dest)] = Usize(Len(Source))
                /\ variables[EndKey(Dest)] = Usize(LastPos + Len(Source))
                /\ \A k \in DOMAIN last.vars : variables[k] = last.vars[k]

\* `2:b:file,"f"` over an output of 11 22 33: bytes 0 and 1 stay, 11 22 33
\* lands at [2, 5), and b is (2, 3, 5)
C11_Witness ==
    /\ FileSucceeded
    /\ Dest = <<"b">>
    /\ last.outf.data = <<17, 34, 51>>
    /\ LastPos = 2
    /\ outf.data = <<17, 34, 17, 34, 51>>
    /\ variables[EndKey(Dest)] = Usize(5)

(***************************************************************************)
(* The order of steps within one statement.                                *)
(***************************************************************************)
\* the statement read last failed with the duplicate-definition error
DuplicateFailed == Redefines /\ status = "failed" /\ error.msg = DuplicateMsg

\* the length the builtin of the statement read last returned
LastLength == ToNat(last.builtin.v)

\* the output as the builtin of the statement read last leaves it, run on
\* the state before the statement
BuiltinAlone(net) ==
    Dispatch(LastCallee, consts, last.vars, LastArgs, last.pos.v, last.outf,
             checks, Files, net).outf

\* C12: a statement that fails with the duplicate-definition error has
\* evaluated its offset and run its builtin first: the output is what the
\* builtin left, the statement's bytes at [pos, pos+length) (the source of a
\* `file`, the little-endian value of a u8/u16/u32), nothing rolled back,
\* and the environment is what it was.
C12_WrittenBeforeDuplicateCheck ==
    DuplicateFailed =>
        /\ IsOk(last.pos)
        /\ IsOk(last.builtin)
        /\ \E net \in Answers(last.line) : outf = BuiltinAlone(net)
        /\ LastLength > 0 => Len(outf.data) >= LastPos + LastLength
        /\ (LastCallee = <<"f", "i", "l", "e">> /\ LastArgs[1].k = "Str") =>
             /\ LastLength = Len(Source)
             /\ SubSeq(outf.data, LastPos + 1, LastPos + LastLength) = Source
        /\ IntWidth # 0 =>
             /\ LastLength = IntWidth
             /\ FromLe(SubSeq(outf.data, LastPos + 1, LastPos + LastLength))
                  = ArgValue(1).v
        /\ variables = last.vars

\* `0:a:file,"f"` after `0:a:u16,0x0102`: the statement failed as a duplicate,
\* 11 22 33 lies over 02 01, and a is still (0, 2, 2)
C12_Witness ==
    /\ DuplicateFailed
    /\ LastCallee = <<"f", "i", "l", "e">>
    /\ last.outf.data = <<2, 1>>
    /\ outf.data = <<17, 34, 51>>
    /\ variables[SizeKey(Dest)] = Usize(2)

====
